---------------------------- MODULE Spec2Model ----------------------------
(***************************************************************************)
(* plytorch (main.cpp): the generic PLY writer and reader (write_ply,      *)
(* read_ply) and the dense float codec (write_float_ply, read_float_ply).  *)
(*                                                                         *)
(* A tensor is its metadata (dtype, ndimension, size(1), device) and a     *)
(* contiguous storage of bytes; the writers copy storage bytes to the      *)
(* file, the readers copy file bytes to fresh storage.  A file is the      *)
(* sequence of its header lines followed by its binary payload bytes.      *)
(* The header tokenizer and the row walker of miniply (PLYReader) are not  *)
(* part of main.cpp; they are modelled from the file format of the         *)
(* specification.                                                          *)
(***************************************************************************)
EXTENDS Integers, Sequences, FiniteSets, TLC

VARIABLES
    build,      \* the build: signedness of plain char, host byte order
    canOpen,    \* whether the destination path can be opened for writing
    file,       \* the file at the path
    doc,        \* write_ply's argument: elements in insertion order
    iter,       \* iteration order of the unordered_maps of doc
    wpc,        \* write_ply: position in the function
    opened,     \* write_ply: mesh_file is open and good
    ei,         \* write_ply: index of the element being iterated
    pi,         \* write_ply: index of the property being iterated
    row,        \* write_ply: el_idx
    cols,       \* write_ply: src_ptrs, strides, is_list, list_sizes of the element
    wlog,       \* history: the payload writes issued, in order
    ub,         \* history: a write read past the end of a buffer
    wres,       \* write_ply: outcome
    rpc,        \* read_ply: position in the function
    rsrc,       \* read_ply: what PLYReader parsed from the file
    ri,         \* read_ply: element index i
    result,     \* read_ply: the local ElementsType result
    rres,       \* read_ply: outcome
    dense,      \* write_float_ply's arguments
    dwres,      \* write_float_ply: outcome
    drres       \* read_float_ply: outcome

vars == <<build, canOpen, file, doc, iter, wpc, opened, ei, pi, row, cols,
          wlog, ub, wres, rpc, rsrc, ri, result, rres, dense, dwres, drres>>

wvars == <<wpc, opened, ei, pi, row, cols, wlog, ub, wres>>
rvars == <<rpc, rsrc, ri, result, rres>>
dvars == <<dwres, drres>>
inputs == <<build, canOpen, doc, iter, dense>>

---------------------------------------------------------------------------
(* Bounds of the model *)

MaxRows == 2
MaxSmallWidth == 3

(* Program constants *)

U16 == 65536
FloatSize == 4

---------------------------------------------------------------------------
(* Scalar types and the three lookup tables *)

TorchTypes ==
    {"Int8", "UInt8", "Int16", "UInt16", "Int32", "UInt32", "Float32",
     "Float64", "Int64"}

PlyTypes ==
    {"char", "uchar", "short", "ushort", "int", "uint", "float", "double"}

ply_to_torch_dtype ==
    [p \in PlyTypes |->
        CASE p = "char"   -> "UInt8"
          [] p = "uchar"  -> "UInt8"
          [] p = "short"  -> "Int16"
          [] p = "ushort" -> "UInt16"
          [] p = "int"    -> "Int32"
          [] p = "uint"   -> "UInt32"
          [] p = "float"  -> "Float32"
          [] p = "double" -> "Float64"]

\* The table with the names of the two 16-bit types exchanged.
torch_dtype_to_ply_swapped ==
    [t \in TorchTypes \ {"Int64"} |->
        CASE t = "UInt8"   -> "uchar"
          [] t = "Int8"    -> "char"
          [] t = "UInt16"  -> "short"
          [] t = "Int16"   -> "ushort"
          [] t = "UInt32"  -> "uint"
          [] t = "Int32"   -> "int"
          [] t = "Float32" -> "float"
          [] t = "Float64" -> "double"]

torch_dtype_to_ply ==
    [t \in TorchTypes \ {"Int64"} |->
        CASE t = "UInt8"   -> "uchar"
          [] t = "Int8"    -> "char"
          [] t = "UInt16"  -> "ushort"
          [] t = "Int16"   -> "short"
          [] t = "UInt32"  -> "uint"
          [] t = "Int32"   -> "int"
          [] t = "Float32" -> "float"
          [] t = "Float64" -> "double"]

torch_dtype_to_size ==
    [t \in TorchTypes \ {"Int64"} |->
        CASE t = "UInt8"   -> 1
          [] t = "Int8"    -> 1
          [] t = "UInt16"  -> 2
          [] t = "Int16"   -> 2
          [] t = "UInt32"  -> 4
          [] t = "Int32"   -> 4
          [] t = "Float32" -> 4
          [] t = "Float64" -> 8]

\* The lookups return a value or throw; a throw is the value "throw".
get_torch_dtype(type) ==
    IF type \in DOMAIN ply_to_torch_dtype THEN ply_to_torch_dtype[type] ELSE "throw"

\* The lookup falling back to a type instead of throwing.
get_ply_dtype_lenient(t) ==
    IF t \in DOMAIN torch_dtype_to_ply THEN torch_dtype_to_ply[t] ELSE "int"

get_ply_dtype(t) ==
    IF t \in DOMAIN torch_dtype_to_ply THEN torch_dtype_to_ply[t] ELSE "throw"

get_torch_dtype_size(t) ==
    IF t \in DOMAIN torch_dtype_to_size THEN torch_dtype_to_size[t] ELSE 0

\* Bytes one item of a tensor occupies in its storage (the tensor library's own
\* item size, defined for every dtype).
ItemSize(t) ==
    IF t = "Int64" THEN 8 ELSE torch_dtype_to_size[t]

\* Bytes one item of a PLY scalar type occupies in the payload (file format).
PlyTypeSize(p) ==
    CASE p \in {"char", "uchar"}       -> 1
      [] p \in {"short", "ushort"}     -> 2
      [] p \in {"int", "uint", "float"} -> 4
      [] p = "double"                  -> 8

---------------------------------------------------------------------------
(* Tensors *)

\* size(0) is the element's row count; size(1) exists for a 2-D tensor.
Numel(t, n) == IF t.ndim = 1 THEN n ELSE n * t.width

StorageBytes(t, n) == Numel(t, n) * ItemSize(t.dtype)

\* The byte at offset k (from 0) of the storage of a tensor.
DataByte(t, k) == (t.seed + 7 * k + (k \div 5)) % 256

Storage(t, n) == [k \in 1..StorageBytes(t, n) |-> DataByte(t, k - 1)]

---------------------------------------------------------------------------
(* Machine integers *)

\* Conversion of an integer to plain char: modulo 2^8, read as signed or not.
ToChar(n, isSigned) ==
    LET m == n % 256
    IN  IF isSigned /\ m >= 128 THEN m - 256 ELSE m

\* The byte a char occupies in memory.
CharByte(c) == c % 256

\* A uint32_t as two 16-bit halves. Conversion of an int in -2^16 < n < 2^31.
ToU32(n) ==
    IF n >= 0 THEN [hi |-> n \div U16, lo |-> n % U16]
    ELSE [hi |-> U16 - 1, lo |-> U16 + n]

\* uint32_t multiplication by a small factor, modulo 2^32.
U32Mul(s, x) ==
    LET l == s * x.lo
        h == s * x.hi + (l \div U16)
    IN  [hi |-> h % U16, lo |-> l % U16]

\* A pointer offset (64-bit) in the same two-part form; hi is not reduced.
OffAdd(c, u) ==
    LET l == c.lo + u.lo
    IN  [hi |-> c.hi + u.hi + (l \div U16), lo |-> l % U16]

OffZero == [hi |-> 0, lo |-> 0]

\* The bytes [c, c + u) lie within a storage of size bytes.
InBounds(c, u, size) ==
    c.hi = 0 /\ u.hi = 0 /\ c.lo + u.lo <= size

\* The offset c lies within a storage of size bytes (one past the end included).
OffWithin(c, size) == c.hi = 0 /\ c.lo <= size

---------------------------------------------------------------------------
(* Files *)

Line(kw, type, name, num) == [kw |-> kw, type |-> type, name |-> name, num |-> num]

NoFile == [exists |-> FALSE, hdr |-> <<>>, payload |-> <<>>]
EmptyFile == [exists |-> TRUE, hdr |-> <<>>, payload |-> <<>>]

is_big_endian == build.bigEndian

FormatLine(big) ==
    IF big THEN Line("format", "binary_big_endian", "1.0", 0)
    ELSE Line("format", "binary_little_endian", "1.0", 0)

SubSeqFrom(s, from, n) == [k \in 1..n |-> s[from + k]]

---------------------------------------------------------------------------
(* Inputs *)

Builds ==
    {[charSigned |-> TRUE,  bigEndian |-> FALSE],
     [charSigned |-> FALSE, bigEndian |-> FALSE],
     [charSigned |-> TRUE,  bigEndian |-> TRUE]}

SeedOf(name) == IF name = "a" THEN 11 ELSE IF name = "b" THEN 97 ELSE 170

Tensor(name, dtype, ndim, width) ==
    [name |-> name, dtype |-> dtype, ndim |-> ndim, width |-> width,
     seed |-> SeedOf(name)]

\* Widths whose char conversion is negative on a signed-char build.
WideWidths == {128, 255}

Shapes ==
    {<<1, 1>>} \cup {<<2, w>> : w \in (0..MaxSmallWidth) \cup WideWidths}

AnyTensor(name) ==
    {Tensor(name, t, s[1], s[2]) : t \in TorchTypes, s \in Shapes}

FewTensors(name) ==
    {Tensor(name, "UInt8", 1, 1), Tensor(name, "Float32", 2, 2),
     Tensor(name, "Int16", 2, 1), Tensor(name, "Int64", 1, 1)}

Element(name, rows, props) == [name |-> name, rows |-> rows, props |-> props]

\* Properties in insertion order: one column, or two inserted as a, b or b, a.
\* Every element holds at least one tensor: the row count of an element is
\* the size(0) of a tensor of it (element.begin()->second.size(0)).
WideElements ==
    {Element("vertex", n, <<p>>) : n \in 0..MaxRows, p \in AnyTensor("a")}
    \cup
    {Element("vertex", n, <<p, q>>) :
        n \in 0..MaxRows, p \in AnyTensor("a"), q \in FewTensors("b")}
    \cup
    {Element("vertex", n, <<q, p>>) :
        n \in 0..MaxRows, p \in AnyTensor("a"), q \in FewTensors("b")}

SmallElements(name) ==
    {Element(name, n, <<p>>) : n \in 0..1, p \in FewTensors("a")}
    \cup
    {Element(name, 1, <<Tensor("b", "Int32", 2, 3), Tensor("a", "Float64", 1, 1)>>)}

SmallDocs ==
    {<<>>}
    \cup {<<e>> : e \in SmallElements("vertex")}
    \cup {<<e, f>> : e \in SmallElements("vertex"), f \in SmallElements("face")}

Docs == SmallDocs \cup {<<e>> : e \in WideElements}

Perms(n) ==
    {p \in [1..n -> 1..n] : \A i, j \in 1..n : i # j => p[i] # p[j]}

\* The iteration orders an unordered_map of the document may have: any order
\* of the elements, and for each element any order of its properties.
IterOrders(d) ==
    {[elems |-> pe, props |-> pp] :
        pe \in Perms(Len(d)),
        pp \in {f \in [1..Len(d) -> UNION {Perms(k) : k \in 1..2}] :
                    \A i \in 1..Len(d) : Len(f[i]) = Len(d[i].props)}}

NumElems == Len(doc)
ElemAt(k) == doc[iter.elems[k]]
NumProps(k) == Len(ElemAt(k).props)
PropAt(k, j) == ElemAt(k).props[iter.props[iter.elems[k]][j]]

\* element.begin()->second.size(0)
FirstSize0(k) == ElemAt(k).rows

---------------------------------------------------------------------------
(* write_ply *)

\* Line 166 and line 188: the two places that classify a column.
HeaderIsList(data) == data.ndim > 1 /\ data.width > 1

\* The payload classification without the test of size(1).
PayloadIsList_any2d(data) == data.ndim > 1

PayloadIsList(data) == data.ndim > 1 /\ data.width > 1

\* Lines 154-161: open the stream, write the magic and the format line.
\* The stream is not checked: on a failed open every write is a no-op.
write_ply_open ==
    /\ wpc = "idle" /\ rpc = "idle" /\ dense.active = FALSE
    /\ opened' = canOpen
    /\ file' = IF canOpen
               THEN [EmptyFile EXCEPT !.hdr =
                        <<Line("ply", "", "", 0), FormatLine(is_big_endian)>>]
               ELSE file
    /\ wpc' = "header" /\ ei' = 1 /\ pi' = 0
    /\ UNCHANGED <<row, cols, wlog, ub, wres, rvars, dvars, inputs>>

Emit(f, line) == IF opened THEN [f EXCEPT !.hdr = Append(@, line)] ELSE f

\* Line 164: the element line.
write_ply_element_line ==
    /\ wpc = "header" /\ ei <= NumElems /\ pi = 0
    /\ file' = Emit(file, Line("element", "", ElemAt(ei).name, FirstSize0(ei)))
    /\ pi' = 1
    /\ UNCHANGED <<wpc, opened, ei, row, cols, wlog, ub, wres, rvars, dvars, inputs>>

\* Lines 165-172: one property line; get_ply_dtype throws after the keyword
\* part of the line went out.
write_ply_property_line ==
    /\ wpc = "header" /\ ei <= NumElems /\ pi >= 1
    /\ LET data == PropAt(ei, pi)
           kw == IF HeaderIsList(data) THEN "property list uchar" ELSE "property"
           ty == get_ply_dtype(data.dtype)
       IN  IF ty = "throw"
           THEN /\ file' = Emit(file, Line(kw, "", "", 0))
                /\ wpc' = "threw" /\ wres' = "UnsupportedType"
                /\ UNCHANGED <<ei, pi>>
           ELSE /\ file' = Emit(file, Line(kw, ty, data.name, 0))
                /\ IF pi < NumProps(ei)
                   THEN pi' = pi + 1 /\ ei' = ei
                   ELSE pi' = 0 /\ ei' = ei + 1
                /\ UNCHANGED <<wpc, wres>>
    /\ UNCHANGED <<opened, row, cols, wlog, ub, rvars, dvars, inputs>>

\* Line 174.
write_ply_end_header ==
    /\ wpc = "header" /\ ei > NumElems
    /\ file' = Emit(file, Line("end_header", "", "", 0))
    /\ wpc' = "setup" /\ ei' = 1 /\ pi' = 0
    /\ UNCHANGED <<opened, row, cols, wlog, ub, wres, rvars, dvars, inputs>>

\* Lines 186-191 for one column.
Column(data, rows) ==
    LET is_list == IF PayloadIsList(data) THEN 1 ELSE 0
    IN  [name      |-> data.name,
         data      |-> data,
         size      |-> StorageBytes(data, rows),
         src_ptr   |-> OffZero,
         stride    |-> get_torch_dtype_size(data.dtype),
         is_list   |-> is_list,
         list_size |-> IF is_list # 0 THEN ToChar(data.width, build.charSigned) ELSE 0]

\* Lines 177-193: the per-element vectors; a loop of zero rows is left at once.
write_ply_setup ==
    /\ wpc = "setup" /\ ei <= NumElems
    /\ cols' = [j \in 1..NumProps(ei) |-> Column(PropAt(ei, j), ElemAt(ei).rows)]
    /\ row' = 0
    /\ IF FirstSize0(ei) = 0
       THEN ei' = ei + 1 /\ pi' = 0 /\ wpc' = "setup"
       ELSE ei' = ei /\ pi' = 1 /\ wpc' = "rows"
    /\ UNCHANGED <<file, opened, wlog, ub, wres, rvars, dvars, inputs>>

\* What a read past the end of the source buffer may put in the file: the
\* bytes beyond the buffer are arbitrary; a far overrun faults in the write.
GarbageBytes == {0, 170}

\* Lines 197-205 for the cell (el_idx, prop_idx): the write request.
CellLen(c) ==
    IF c.is_list = 0 THEN ToU32(c.stride)
    ELSE U32Mul(c.stride, ToU32(c.list_size))

CellPrefix(c) == IF c.is_list = 0 THEN <<>> ELSE <<CharByte(c.list_size)>>

CellBytes(c, n) ==
    [k \in 1..n |-> DataByte(c.data, c.src_ptr.lo + k - 1)]

Advance ==
    IF pi < Len(cols)
    THEN pi' = pi + 1 /\ row' = row /\ ei' = ei /\ wpc' = wpc
    ELSE IF row + 1 # FirstSize0(ei)
         THEN pi' = 1 /\ row' = row + 1 /\ ei' = ei /\ wpc' = wpc
         ELSE pi' = 0 /\ row' = row + 1 /\ ei' = ei + 1 /\ wpc' = "setup"

LogEntry(c, len) ==
    [elem |-> ElemAt(ei).name, row |-> row, prop |-> c.name,
     is_list |-> c.is_list, stride |-> c.stride, len |-> len]

\* Lines 195-207: one cell of the payload.
write_ply_cell ==
    /\ wpc = "rows"
    /\ LET c == cols[pi]
           len == CellLen(c)
       IN  /\ wlog' = Append(wlog, LogEntry(c, len))
           /\ cols' = [cols EXCEPT ![pi].src_ptr = OffAdd(@, len)]
           /\ IF ~opened
              THEN /\ UNCHANGED <<file, opened, ub>>
                   /\ Advance
              ELSE IF InBounds(c.src_ptr, len, c.size)
              THEN /\ file' = [file EXCEPT !.payload =
                                  @ \o CellPrefix(c) \o CellBytes(c, len.lo)]
                   /\ UNCHANGED <<opened, ub>>
                   /\ Advance
              ELSE /\ ub' = TRUE
                   /\ \/ /\ wpc' = "crashed"
                         /\ UNCHANGED <<file, opened, ei, pi, row>>
                      \/ /\ len.hi = 0
                         /\ \E g \in GarbageBytes :
                              file' = [file EXCEPT !.payload =
                                          @ \o CellPrefix(c) \o [k \in 1..len.lo |-> g]]
                         /\ UNCHANGED opened
                         /\ Advance
                      \/ /\ len.hi # 0
                         /\ file' = [file EXCEPT !.payload = @ \o CellPrefix(c)]
                         /\ opened' = FALSE
                         /\ Advance
    /\ UNCHANGED <<wres, rvars, dvars, inputs>>

\* Lines 210-211.
write_ply_close ==
    /\ wpc = "setup" /\ ei > NumElems
    /\ wpc' = "done" /\ wres' = "true"
    /\ UNCHANGED <<file, opened, ei, pi, row, cols, wlog, ub, rvars, dvars, inputs>>

write_ply ==
    \/ write_ply_open
    \/ write_ply_element_line
    \/ write_ply_property_line
    \/ write_ply_end_header
    \/ write_ply_setup
    \/ write_ply_cell
    \/ write_ply_close

---------------------------------------------------------------------------
(* PLYReader: the header parser and the row walker (file format) *)

Range(s) == {s[k] : k \in DOMAIN s}

IsPropertyLine(l) ==
    l.kw \in {"property", "property list uchar"} /\ l.type \in PlyTypes

\* reader.valid(): the file exists and its header is a well-formed PLY header.
ValidHeader(f) ==
    /\ f.exists
    /\ Len(f.hdr) >= 3
    /\ f.hdr[1].kw = "ply"
    /\ f.hdr[2].kw = "format"
    /\ f.hdr[Len(f.hdr)].kw = "end_header"
    /\ \A i \in 3..(Len(f.hdr) - 1) :
          /\ f.hdr[i].kw = "element" \/ IsPropertyLine(f.hdr[i])
          /\ i = 3 => f.hdr[i].kw = "element"

ElementLines(hdr) ==
    LET IsElem(i) == hdr[i].kw = "element"
    IN  SelectSeq([i \in 1..Len(hdr) |-> i], IsElem)

PropertyDecl(l) ==
    [name      |-> l.name,
     type      |-> l.type,
     countType |-> IF l.kw = "property list uchar" THEN "UChar" ELSE "None",
     rowCount  |-> <<>>,
     data      |-> <<>>]

\* The declared elements, in file order, nothing loaded yet.
ParseHeader(hdr) ==
    LET at == ElementLines(hdr)
        last(k) == IF k < Len(at) THEN at[k + 1] - 1 ELSE Len(hdr) - 1
    IN  [k \in 1..Len(at) |->
            [name       |-> hdr[at[k]].name,
             count      |-> hdr[at[k]].num,
             properties |-> [j \in 1..(last(k) - at[k]) |->
                                PropertyDecl(hdr[at[k] + j])]]]

\* One row of an element from the payload at pos: a scalar is PlyTypeSize
\* bytes; a list is one count byte followed by count items.
RECURSIVE WalkCells(_, _, _, _)
WalkCells(props, payload, pos, j) ==
    IF j > Len(props) THEN [ok |-> TRUE, pos |-> pos, props |-> props]
    ELSE LET p == props[j]
             sz == PlyTypeSize(p.type)
         IN  IF p.countType = "None"
             THEN IF pos + sz > Len(payload)
                  THEN [ok |-> FALSE, pos |-> pos, props |-> props]
                  ELSE WalkCells(
                         [props EXCEPT ![j].data = @ \o SubSeqFrom(payload, pos, sz)],
                         payload, pos + sz, j + 1)
             ELSE IF pos + 1 > Len(payload)
                  THEN [ok |-> FALSE, pos |-> pos, props |-> props]
                  ELSE LET n == payload[pos + 1]
                       IN  IF pos + 1 + n * sz > Len(payload)
                           THEN [ok |-> FALSE, pos |-> pos, props |-> props]
                           ELSE WalkCells(
                                  [props EXCEPT
                                     ![j].rowCount = Append(@, n),
                                     ![j].data = @ \o SubSeqFrom(payload, pos + 1, n * sz)],
                                  payload, pos + 1 + n * sz, j + 1)

RECURSIVE WalkRows(_, _, _, _)
WalkRows(props, payload, pos, left) ==
    IF left = 0 THEN [ok |-> TRUE, pos |-> pos, props |-> props]
    ELSE LET r == WalkCells(props, payload, pos, 1)
         IN  IF r.ok THEN WalkRows(r.props, payload, r.pos, left - 1) ELSE r

\* reader.load_element(): the rows of one element, column by column.
LoadElement(elem, payload, pos) ==
    WalkRows(elem.properties, payload, pos, elem.count)

---------------------------------------------------------------------------
(* read_ply *)

RECURSIVE SortSet(_)
SortSet(S) ==
    IF S = {} THEN <<>>
    ELSE LET m == CHOOSE x \in S : \A y \in S : x <= y
         IN  <<m>> \o SortSet(S \ {m})

\* Lines 94-98: copy, sort, unique, erase.
Rowcounts(property) == SortSet(Range(property.rowCount))

\* Lines 99-101: the check that guards the list branch.
IsJagged(property) ==
    property.countType # "None" /\ Len(Rowcounts(property)) # 1

\* Lines 103-111: the tensor of one property.
PropertyTensor(property, N) ==
    IF property.countType # "None"
    THEN [dtype |-> get_torch_dtype(property.type), ndim |-> 2, rows |-> N,
          width |-> Rowcounts(property)[1], bytes |-> property.data]
    ELSE [dtype |-> get_torch_dtype(property.type), ndim |-> 1, rows |-> N,
          width |-> 1, bytes |-> property.data]

\* props_dict after the loop: a later property of the same name overwrites.
PropsDict(props, N) ==
    [n \in {props[j].name : j \in DOMAIN props} |->
        LET j == CHOOSE j \in DOMAIN props :
                    /\ props[j].name = n
                    /\ \A k \in DOMAIN props : props[k].name = n => k <= j
        IN  PropertyTensor(props[j], N)]

\* Lines 80-117: the outcomes of read_ply_element on a loaded element. The
\* first list property whose unique rowcounts are not exactly one throws;
\* with no row at all the message reads rowcounts[0] of an empty vector.
read_ply_element(props, name, N) ==
    LET bad == {j \in DOMAIN props : IsJagged(props[j])}
    IN  IF bad = {}
        THEN {[kind |-> "ok", name |-> name, props |-> PropsDict(props, N)]}
        ELSE LET j == CHOOSE j \in bad : \A k \in bad : j <= k
                 rc == Rowcounts(props[j])
             IN  IF Len(rc) > 0
                 THEN {[kind |-> "JaggedList", name |-> props[j].name,
                        lo |-> rc[1], hi |-> rc[Len(rc)]]}
                 ELSE {[kind |-> "crash", name |-> props[j].name, lo |-> 0, hi |-> 0]}
                      \cup {[kind |-> "JaggedList", name |-> props[j].name,
                             lo |-> g, hi |-> h] : g, h \in GarbageBytes}

WriterAtRest == wpc \in {"idle", "done", "threw", "crashed"}

\* Lines 120-126: construct the reader, check it, start the loop.
read_ply_open ==
    /\ rpc = "idle" /\ WriterAtRest /\ dense.active = FALSE
    /\ IF ValidHeader(file)
       THEN /\ rsrc' = [elems |-> ParseHeader(file.hdr), pos |-> 0]
            /\ rpc' = "loop" /\ ri' = 0
            /\ UNCHANGED rres
       ELSE /\ rres' = [kind |-> "OpenError"]
            /\ rpc' = "threw"
            /\ UNCHANGED <<rsrc, ri>>
    /\ UNCHANGED <<result, file, wvars, dvars, inputs>>

Put(map, key, val) ==
    [k \in (DOMAIN map) \cup {key} |-> IF k = key THEN val ELSE map[k]]

\* Lines 128-133: one iteration. load_element's return value is not looked
\* at: when the payload is too short the tensors hold nothing defined.
read_ply_iteration ==
    /\ rpc = "loop" /\ ri < Len(rsrc.elems)
    /\ LET elem == rsrc.elems[ri + 1]
           ld == LoadElement(elem, file.payload, rsrc.pos)
       IN  IF ~ld.ok
           THEN /\ rres' = [kind |-> "Undefined"]
                /\ rpc' = "done"
                /\ UNCHANGED <<rsrc, ri, result>>
           ELSE \E out \in read_ply_element(ld.props, elem.name, elem.count) :
                  IF out.kind = "ok"
                  THEN /\ result' = Put(result, out.name, out.props)
                       /\ rsrc' = [rsrc EXCEPT !.pos = ld.pos]
                       /\ ri' = ri + 1
                       /\ UNCHANGED <<rpc, rres>>
                  ELSE /\ rres' = out
                       /\ rpc' = IF out.kind = "crash" THEN "crashed" ELSE "threw"
                       /\ UNCHANGED <<rsrc, ri, result>>
    /\ UNCHANGED <<file, wvars, dvars, inputs>>

\* Line 134.
read_ply_return ==
    /\ rpc = "loop" /\ ri = Len(rsrc.elems)
    /\ rres' = [kind |-> "ok"]
    /\ rpc' = "done"
    /\ UNCHANGED <<rsrc, ri, result, file, wvars, dvars, inputs>>

read_ply ==
    \/ read_ply_open
    \/ read_ply_iteration
    \/ read_ply_return

\* What the caller of read_ply holds: the Document, or nothing.
Returned == IF rres.kind = "ok" THEN result ELSE <<>>

---------------------------------------------------------------------------
(* The file as a stream of bytes *)

StrLen(str) ==
    CASE str \in {"a", "b", "x", "y", "z"}                      -> 1
      [] str \in {"int", "idx", "ply", "1.0"}                   -> 3
      [] str \in {"char", "uint", "face"}                       -> 4
      [] str \in {"uchar", "short", "float"}                    -> 5
      [] str \in {"ushort", "double", "vertex", "format"}       -> 6
      [] str = "element"                                        -> 7
      [] str = "property"                                       -> 8
      [] str = "end_header"                                     -> 10
      [] str = "property list uchar"                            -> 19
      [] str = "binary_big_endian"                              -> 17
      [] str = "binary_little_endian"                           -> 20
      [] str = ""                                               -> 0

Digits(n) == IF n < 10 THEN 1 ELSE IF n < 100 THEN 2 ELSE 3

\* Characters of one header line, its newline included. The line a throw cut
\* short is its keyword and the blank after it.
LineBytes(l) ==
    CASE l.kw \in {"ply", "end_header"} -> StrLen(l.kw) + 1
      [] l.kw = "format"  -> StrLen(l.kw) + 1 + StrLen(l.type) + 1 + StrLen(l.name) + 1
      [] l.kw = "element" -> StrLen(l.kw) + 1 + StrLen(l.name) + 1 + Digits(l.num) + 1
      [] OTHER -> IF l.type = "" THEN StrLen(l.kw) + 1
                  ELSE StrLen(l.kw) + 1 + StrLen(l.type) + 1 + StrLen(l.name) + 1

RECURSIVE HeaderBytes(_)
HeaderBytes(hdr) ==
    IF hdr = <<>> THEN 0
    ELSE LineBytes(hdr[1]) + HeaderBytes(Tail(hdr))

FileSize(f) == HeaderBytes(f.hdr) + Len(f.payload)

\* A character of the header, as opposed to a byte of the payload.
HeaderChar == "text"

\* The byte at offset k (from 0) of the file.
FileByte(f, k) ==
    IF k < HeaderBytes(f.hdr) THEN HeaderChar
    ELSE f.payload[k - HeaderBytes(f.hdr) + 1]

---------------------------------------------------------------------------
(* write_float_ply *)

DenseTensor(ndim, rows, width, device, dtype) ==
    [name |-> "data", ndim |-> ndim, rows |-> rows, width |-> width,
     device |-> device, dtype |-> dtype, seed |-> 42]

\* The checks without the one of the device.
write_float_ply_check_nodevice(isOpen, data, props) ==
    IF ~isOpen THEN "CouldNotCreateFile"
    ELSE IF data.ndim # 2 THEN "NotTwoDimensional"
    ELSE IF data.width # Len(props) THEN "SizeMismatch"
    ELSE IF data.dtype # "Float32" THEN "NotFloat32"
    ELSE "ok"

\* Lines 254-268: the first check that fails, in the order of the code.
write_float_ply_check(isOpen, data, props) ==
    IF ~isOpen THEN "CouldNotCreateFile"
    ELSE IF data.ndim # 2 THEN "NotTwoDimensional"
    ELSE IF data.width # Len(props) THEN "SizeMismatch"
    ELSE IF data.device # "cpu" THEN "NotOnCPU"
    ELSE IF data.dtype # "Float32" THEN "NotFloat32"
    ELSE "ok"

\* Lines 270-277: the header.
write_float_ply_header(data, props) ==
    <<Line("ply", "", "", 0),
      Line("format", "binary_little_endian", "1.0", 0),
      Line("element", "", "vertex", data.rows)>>
    \o [j \in 1..Len(props) |-> Line("property", "float", props[j], 0)]
    \o <<Line("end_header", "", "", 0)>>

\* Line 279.
write_float_ply_data_size(data) == FloatSize * data.rows * data.width

\* Lines 247-282. The stream is opened, and so the file created or emptied,
\* before any argument is looked at.
write_float_ply ==
    /\ dense.active /\ dwres = "none" /\ drres.kind = "none"
    /\ LET data == dense.data
           props == dense.props
           chk == write_float_ply_check(canOpen, data, props)
       IN  /\ dwres' = chk
           /\ file' =
                IF ~canOpen THEN file
                ELSE IF chk # "ok" THEN EmptyFile
                ELSE [exists  |-> TRUE,
                      hdr     |-> write_float_ply_header(data, props),
                      payload |-> [k \in 1..write_float_ply_data_size(data) |->
                                      DataByte(data, k - 1)]]
    /\ UNCHANGED <<drres, wvars, rvars, inputs>>

---------------------------------------------------------------------------
(* read_float_ply *)

FileType(hdr) ==
    IF hdr[2].type = "binary_little_endian" THEN "Binary"
    ELSE IF hdr[2].type = "binary_big_endian" THEN "BinaryBigEndian"
    ELSE "ASCII"

\* The size in items instead of bytes.
read_float_ply_data_size_items(elem) == elem.count * Len(elem.properties)

\* Line 239.
read_float_ply_data_size(elem) == elem.count * Len(elem.properties) * FloatSize

\* Lines 235-242: seek back data_size bytes from the end and read them. A
\* seek before the start of the file fails and nothing is read.
read_float_ply_tail(f, data_size) ==
    LET at == FileSize(f) - data_size
    IN  IF at < 0 THEN [at |-> at, defined |-> FALSE, bytes |-> <<>>]
        ELSE [at |-> at, defined |-> TRUE,
              bytes |-> [k \in 1..data_size |-> FileByte(f, at + k - 1)]]

\* Lines 215-245.
read_float_ply ==
    /\ dense.active /\ drres.kind = "none"
    /\ drres' =
         IF ~ValidHeader(file) THEN [kind |-> "OpenError"]
         ELSE LET elems == ParseHeader(file.hdr)
              IN  IF Len(elems) # 1 THEN [kind |-> "InvalidFile"]
                  ELSE IF FileType(file.hdr) # "Binary"
                  THEN [kind |-> "UnsupportedEncoding"]
                  ELSE LET elem == elems[1]
                           got == read_float_ply_tail(
                                      file, read_float_ply_data_size(elem))
                       IN  [kind    |-> "ok",
                            rows    |-> elem.count,
                            width   |-> Len(elem.properties),
                            dtype   |-> "Float32",
                            props   |-> [j \in 1..Len(elem.properties) |->
                                            elem.properties[j].name],
                            at      |-> got.at,
                            defined |-> got.defined,
                            bytes   |-> got.bytes]
    /\ UNCHANGED <<file, dwres, wvars, rvars, inputs>>

---------------------------------------------------------------------------
(* Files found at the path before any call *)

RECURSIVE Flatten(_)
Flatten(ss) == IF ss = <<>> THEN <<>> ELSE ss[1] \o Flatten(Tail(ss))

\* A property as an author of files describes it: the items of each row.
RawProperty(name, type, isList, lens) ==
    [name |-> name, type |-> type, isList |-> isList, lens |-> lens]

RawCell(p, r, j) ==
    LET n == IF p.isList THEN p.lens[r] ELSE 1
        bytes == [k \in 1..(n * PlyTypeSize(p.type)) |-> (31 * r + 7 * j + k) % 256]
    IN  IF p.isList THEN <<n>> \o bytes ELSE bytes

RawPayload(e) ==
    Flatten([r \in 1..e.count |->
                Flatten([j \in 1..Len(e.props) |-> RawCell(e.props[j], r, j)])])

RawHeader(e) ==
    <<Line("element", "", e.name, e.count)>>
    \o [j \in 1..Len(e.props) |->
          Line(IF e.props[j].isList THEN "property list uchar" ELSE "property",
               e.props[j].type, e.props[j].name, 0)]

RawFile(es) ==
    [exists  |-> TRUE,
     hdr     |-> <<Line("ply", "", "", 0), FormatLine(FALSE)>>
                 \o Flatten([k \in 1..Len(es) |-> RawHeader(es[k])])
                 \o <<Line("end_header", "", "", 0)>>,
     payload |-> Flatten([k \in 1..Len(es) |-> RawPayload(es[k])])]

RawVertex ==
    [name |-> "vertex", count |-> 1,
     props |-> <<RawProperty("x", "float", FALSE, <<>>)>>]

\* A face element whose list property idx has the given row lengths, alone
\* or followed by a scalar property.
RawFaceProps(n) ==
    UNION {{<<RawProperty("idx", t, TRUE, lens)>>,
            <<RawProperty("idx", t, TRUE, lens),
              RawProperty("a", "uchar", FALSE, <<>>)>>} :
              t \in {"uchar", "int"}, lens \in [1..n -> 0..MaxSmallWidth]}

RawFaces ==
    UNION {{[name |-> "face", count |-> n, props |-> ps] : ps \in RawFaceProps(n)} :
              n \in 0..MaxRows}

\* An element of no rows that declares a list property.
RawEmpty ==
    [name |-> "vertex", count |-> 0,
     props |-> <<RawProperty("idx", "int", TRUE, <<>>)>>]

PreFiles ==
    {RawFile(<<f>>) : f \in RawFaces}
    \cup {RawFile(<<RawVertex, f>>) : f \in RawFaces}
    \cup {RawFile(<<RawEmpty, f>>) : f \in RawFaces}

OldFile == RawFile(<<RawVertex>>)

---------------------------------------------------------------------------
(* The calls made: write_ply and then read_ply, read_ply alone on a file
   found at the path, or write_float_ply and read_float_ply *)

NoDense == [active |-> FALSE]

TinyDocs ==
    {<<>>,
     <<Element("vertex", 1, <<Tensor("a", "Int64", 1, 1)>>)>>,
     <<Element("vertex", 1, <<Tensor("b", "UInt8", 1, 1), Tensor("a", "Int64", 1, 1)>>)>>,
     <<Element("vertex", 2, <<Tensor("a", "Float32", 2, 2)>>)>>}

InitGeneric ==
    /\ doc \in Docs
    /\ iter \in IterOrders(doc)
    /\ build \in Builds
    /\ canOpen \in BOOLEAN
    /\ file = NoFile
    /\ (~canOpen) => doc \in SmallDocs
    /\ dense = NoDense

InitRead ==
    /\ doc \in TinyDocs
    /\ iter \in IterOrders(doc)
    /\ build \in Builds
    /\ canOpen \in BOOLEAN
    /\ file \in PreFiles \cup {OldFile}
    /\ dense = NoDense

NameLists == {<<>>, <<"x">>, <<"y", "x">>, <<"x", "x">>, <<"x", "y", "z">>}

DenseInputs ==
    {[active |-> TRUE, data |-> DenseTensor(nd, n, w, dev, t), props |-> ps] :
        nd \in 1..3, n \in 0..MaxRows, w \in 0..MaxSmallWidth,
        dev \in {"cpu", "cuda"}, t \in {"Float32", "Float64", "Int32"},
        ps \in NameLists}

InitDense ==
    /\ dense \in DenseInputs
    /\ doc = <<>>
    /\ iter \in IterOrders(doc)
    /\ build \in Builds
    /\ canOpen \in BOOLEAN
    /\ file \in {NoFile, OldFile, RawFile(<<RawVertex, RawVertex>>),
                 [OldFile EXCEPT !.hdr[2] = FormatLine(TRUE)]}

Init ==
    /\ InitGeneric \/ InitRead \/ InitDense
    /\ wpc = "idle" /\ opened = FALSE /\ ei = 0 /\ pi = 0 /\ row = 0
    /\ cols = <<>> /\ wlog = <<>> /\ ub = FALSE /\ wres = "none"
    /\ rpc = "idle" /\ rsrc = [elems |-> <<>>, pos |-> 0] /\ ri = 0
    /\ result = <<>> /\ rres = [kind |-> "none"]
    /\ dwres = "none" /\ drres = [kind |-> "none"]

Next == write_ply \/ read_ply \/ write_float_ply \/ read_float_ply

Spec == Init /\ [][Next]_vars

---------------------------------------------------------------------------
(* Vocabulary of the properties *)

Tensors(e) == Range(e.props)
AllTensors == UNION {Tensors(e) : e \in Range(doc)}

ReadFinished == rpc \in {"done", "threw", "crashed"}

\* The header of the destination is complete: write_ply is past line 174.
HeaderWritten == canOpen /\ wpc \in {"setup", "rows", "done", "crashed"}

\* The property names of element name, as the header declares them.
HeaderNames(name) ==
    LET es == ParseHeader(file.hdr)
        k == CHOOSE k \in DOMAIN es : es[k].name = name
    IN  [j \in DOMAIN es[k].properties |-> es[k].properties[j].name]

InsertionNames(e) == [j \in DOMAIN e.props |-> e.props[j].name]

IsPrefix(s, t) ==
    Len(s) <= Len(t) /\ \A k \in 1..Len(s) : s[k] = t[k]

\* The cells the header announces, in payload order: elements in header
\* order, rows in order, properties in declaration order, each with the
\* classification and the byte width of its declaration.
DeclaredCells(es) ==
    Flatten([k \in DOMAIN es |->
      Flatten([r \in 1..es[k].count |->
        [j \in DOMAIN es[k].properties |->
            [elem    |-> es[k].name,
             row     |-> r - 1,
             prop    |-> es[k].properties[j].name,
             is_list |-> IF es[k].properties[j].countType = "None" THEN 0 ELSE 1,
             stride  |-> PlyTypeSize(es[k].properties[j].type)]]])])

WrittenCells ==
    [k \in DOMAIN wlog |->
        [elem |-> wlog[k].elem, row |-> wlog[k].row, prop |-> wlog[k].prop,
         is_list |-> wlog[k].is_list, stride |-> wlog[k].stride]]

\* Every element of a file, loaded.
RECURSIVE LoadAll(_, _, _, _)
LoadAll(es, payload, pos, k) ==
    IF k > Len(es) THEN [ok |-> TRUE, elems |-> es]
    ELSE LET ld == LoadElement(es[k], payload, pos)
         IN  IF ~ld.ok THEN [ok |-> FALSE, elems |-> es]
             ELSE LoadAll([es EXCEPT ![k].properties = ld.props], payload, ld.pos, k + 1)

\* The list properties of the file whose rows have more than one length.
JaggedProperties(f) ==
    IF ~ValidHeader(f) THEN {}
    ELSE LET all == LoadAll(ParseHeader(f.hdr), f.payload, 0, 1)
         IN  IF ~all.ok THEN {}
             ELSE {p \in UNION {Range(e.properties) : e \in Range(all.elems)} :
                      p.countType # "None" /\ Cardinality(Range(p.rowCount)) > 1}

MinOf(S) == CHOOSE x \in S : \A y \in S : x <= y
MaxOf(S) == CHOOSE x \in S : \A y \in S : x >= y

---------------------------------------------------------------------------
(* C1 *)

ScalarDoc ==
    \A t \in AllTensors :
        /\ t.dtype \in DOMAIN torch_dtype_to_ply
        /\ t.ndim = 1 \/ t.width = 1

ReadBack(dtype) == IF dtype = "Int8" THEN "UInt8" ELSE dtype

\* C1: a Document of scalar columns of the eight supported types, written by
\* write_ply to a path that opens and read back by read_ply, returns with the
\* same element names, the same property names per element, the same row
\* counts, the same scalar types except Int8 read back as UInt8, and the
\* same bytes in every column, in whatever order the columns were iterated.
C1_ScalarRoundTrip ==
    (ScalarDoc /\ canOpen /\ wpc = "done" /\ ReadFinished) =>
        /\ rres.kind = "ok"
        /\ DOMAIN Returned = {e.name : e \in Range(doc)}
        /\ \A e \in Range(doc) :
            /\ DOMAIN Returned[e.name] = {t.name : t \in Tensors(e)}
            /\ \A t \in Tensors(e) :
                LET got == Returned[e.name][t.name]
                IN  /\ got.dtype = ReadBack(t.dtype)
                    /\ got.rows = e.rows
                    /\ got.bytes = Storage(t, e.rows)

C1_Witness ==
    /\ ScalarDoc /\ canOpen /\ wpc = "done" /\ rres.kind = "ok"
    /\ Len(doc) = 1 /\ Len(doc[1].props) = 2 /\ doc[1].rows = 2
    /\ \E t \in AllTensors : t.dtype = "Int8"
    /\ iter.props[1] = <<2, 1>>

---------------------------------------------------------------------------
(* C2 *)

ListInRange(t) == t.ndim = 2 /\ t.width >= 2 /\ t.width <= 255

ListDoc ==
    /\ \E t \in AllTensors : ListInRange(t)
    /\ \A t \in AllTensors :
        /\ t.dtype \in DOMAIN torch_dtype_to_ply
        /\ t.ndim = 1 \/ t.width = 1 \/ ListInRange(t)

\* C2: a Document with a list column of shape [N, L], N >= 0 and
\* 2 <= L <= 255, written by write_ply and read back by read_ply, comes
\* back: write_ply runs to its end reading only the buffers, read_ply
\* succeeds, and the column returns with shape [N, L] and the same bytes.
C2_ListRoundTrip ==
    (ListDoc /\ canOpen) =>
        /\ wpc # "crashed" /\ ~ub
        /\ (wpc = "done" /\ ReadFinished) =>
            /\ rres.kind = "ok"
            /\ \A e \in Range(doc) : \A t \in Tensors(e) :
                  ListInRange(t) =>
                    LET got == Returned[e.name][t.name]
                    IN  /\ got.ndim = 2 /\ got.rows = e.rows /\ got.width = t.width
                        /\ got.bytes = Storage(t, e.rows)

---------------------------------------------------------------------------
(* C3 *)

\* C3: in one write_ply call the payload cells follow the header: elements
\* in the order of their element lines, and inside each row the columns in
\* the order of the property lines, each written as the list or scalar the
\* header declares and with the byte width of its declared type; a call
\* that returns has written every declared cell.
C3_HeaderPayloadOrder ==
    HeaderWritten =>
        /\ ValidHeader(file)
        /\ IsPrefix(WrittenCells, DeclaredCells(ParseHeader(file.hdr)))
        /\ wpc = "done" =>
              Len(WrittenCells) = Len(DeclaredCells(ParseHeader(file.hdr)))

C3_Witness ==
    /\ HeaderWritten /\ wpc = "done" /\ ~ub
    /\ Len(doc) = 2
    /\ \E k \in DOMAIN doc : Len(doc[k].props) = 2
    /\ Len(wlog) >= 3
    /\ \E k \in DOMAIN wlog : wlog[k].is_list = 1

---------------------------------------------------------------------------
(* C4 *)

\* C4: the property lines of every element, and with them the columns of
\* each payload row, are in the order in which the properties were inserted
\* into the element.
C4_InsertionOrder ==
    HeaderWritten =>
        /\ \A e \in Range(doc) : HeaderNames(e.name) = InsertionNames(e)
        /\ \A k \in DOMAIN wlog : \A e \in Range(doc) :
              (wlog[k].elem = e.name /\ k + Len(e.props) - 1 <= Len(wlog)
                 /\ wlog[k].prop = HeaderNames(e.name)[1]) =>
                    [j \in DOMAIN e.props |-> wlog[k + j - 1].prop] = InsertionNames(e)

---------------------------------------------------------------------------
(* C5 *)

\* C5: when a list property of any element of the file has rows of more
\* than one length, read_ply ends with the jagged-list error of such a
\* property, carrying the least and the greatest of its row lengths, and
\* returns no Document.
C5_JaggedDetected ==
    (ReadFinished /\ JaggedProperties(file) # {}) =>
        /\ rres.kind = "JaggedList"
        /\ \E p \in JaggedProperties(file) :
              /\ rres.name = p.name
              /\ rres.lo = MinOf(Range(p.rowCount))
              /\ rres.hi = MaxOf(Range(p.rowCount))
        /\ Returned = <<>>

---------------------------------------------------------------------------
(* C6 *)

HasUnsupported == \E t \in AllTensors : t.dtype \notin DOMAIN torch_dtype_to_ply

\* C6: a Document with a column of a type outside the write table makes
\* write_ply fail with the unsupported-type error wherever the column comes
\* in the iteration; the call never gets past the header, and what it
\* leaves at a path that opened has no end_header line and no payload, so it
\* is no valid PLY file.
C6_TypeRejection ==
    HasUnsupported =>
        /\ wpc \in {"idle", "header", "threw"}
        /\ wpc = "threw" => wres = "UnsupportedType"
        /\ (canOpen /\ wpc = "threw") =>
              /\ \A k \in DOMAIN file.hdr : file.hdr[k].kw # "end_header"
              /\ file.payload = <<>>
              /\ ~ValidHeader(file)

C6_Witness ==
    /\ HasUnsupported /\ canOpen /\ wpc = "threw" /\ wres = "UnsupportedType"
    /\ Len(file.hdr) = 5
    /\ file.hdr[4].type = "uchar"

---------------------------------------------------------------------------
(* C7 *)

\* C7: write_ply to a path that cannot be opened fails with an open error
\* and never returns true.
C7_OpenFailureReported ==
    ~canOpen =>
        /\ wres # "true"
        /\ wpc \in {"done", "threw"} => wres = "OpenError"

---------------------------------------------------------------------------
(* C8 *)

DenseViolations ==
    {v \in {"NotTwoDimensional", "SizeMismatch", "NotOnCPU", "NotFloat32"} :
        \/ v = "NotTwoDimensional" /\ dense.data.ndim # 2
        \/ v = "SizeMismatch" /\ dense.data.width # Len(dense.props)
        \/ v = "NotOnCPU" /\ dense.data.device # "cpu"
        \/ v = "NotFloat32" /\ dense.data.dtype # "Float32"}

\* C8: write_float_ply on a buffer that is not 2-dimensional, or whose width
\* is not the number of names, or that is not on the CPU, or that is not
\* Float32 fails with the error of one of the preconditions that are
\* violated, a different error for each and none of them the open error
\* (which is raised when, and only when, the path does not open), and
\* leaves the destination without a byte of header or payload.
C8_DensePreconditions ==
    (dense.active /\ dwres # "none") =>
        /\ ~canOpen => dwres = "CouldNotCreateFile"
        /\ (canOpen /\ DenseViolations # {}) =>
              /\ dwres \in DenseViolations
              /\ dwres # "CouldNotCreateFile"
              /\ file.hdr = <<>> /\ file.payload = <<>>

C8_Witness ==
    /\ dense.active /\ canOpen /\ dwres = "NotOnCPU"
    /\ DenseViolations = {"NotOnCPU", "NotFloat32"}
    /\ file = EmptyFile

---------------------------------------------------------------------------
(* C9 *)

\* C9: a CPU Float32 buffer of shape [N, P] written with P names by
\* write_float_ply and read back by read_float_ply returns as a Float32
\* buffer of shape [N, P] with the same bytes and the same names in the
\* same order, and the seek of the reader lands on the first byte after the
\* header.
C9_DenseRoundTrip ==
    (dense.active /\ dwres = "ok" /\ drres.kind # "none") =>
        /\ drres.kind = "ok"
        /\ drres.dtype = "Float32"
        /\ drres.rows = dense.data.rows
        /\ drres.width = dense.data.width
        /\ drres.props = dense.props
        /\ drres.defined
        /\ drres.at = HeaderBytes(file.hdr)
        /\ drres.bytes = Storage(dense.data, dense.data.rows)

C9_Witness ==
    /\ dense.active /\ dwres = "ok" /\ drres.kind = "ok"
    /\ dense.data.rows = 2 /\ dense.props = <<"x", "y", "z">>
    /\ Len(drres.bytes) = 24

---------------------------------------------------------------------------
(* C10 *)

\* C10: in the payload loop of write_ply every column's source cursor stays
\* within its buffer, no write reads past the buffer's end, and when the
\* rows of an element are done the cursor of each column has advanced by
\* exactly the size of its buffer.
C10_CursorWithinBuffer ==
    /\ ~ub
    /\ \A j \in DOMAIN cols : OffWithin(cols[j].src_ptr, cols[j].size)
    /\ wpc \in {"setup", "done"} =>
          \A j \in DOMAIN cols : cols[j].src_ptr = ToU32(cols[j].size)

=============================================================================
